---- MODULE Spec2Model ----
(***************************************************************************)
(* Model of focus-layers: the LockStack class (src/src/LockStack.tsx),     *)
(* the hooks useLockLayer, useFocusLock and useFocusReturn                 *)
(* (src/src/useFocusLock.tsx) and wrapFocus (src/src/util/wrapFocus.tsx).  *)
(*                                                                         *)
(* Spec is the lock stack with its direct callers and useLockLayer,        *)
(* SpecSub adds subscribers, SpecWrap is wrapFocus on its own over every   *)
(* small document, SpecFocus is useFocusLock on a document with focus      *)
(* events, SpecMount is the mounting of layers whose elements may be       *)
(* rendered with autoFocus, SpecReentrant is the lock stack with callbacks *)
(* that call it back, SpecLive is the lock stack under fairness, with      *)
(* callers that remove what they add.  SpecDisable is useLockLayer with    *)
(* the disable option of useFocusLock, SpecDisableFocus the same with      *)
(* focus events, SpecNoContainer is useFocusLock with a containerRef that  *)
(* holds no element.                                                       *)
(*                                                                         *)
(* A call of add / remove / toggleLayer is a sequence of steps, because    *)
(* the consumer callback setEnabled runs in the middle of it; pc is the    *)
(* position of the running call, "idle" when no call is in progress.       *)
(***************************************************************************)
EXTENDS Integers, Sequences, FiniteSets, TLC

\* ---------------------------------------------------------------- bounds
MaxOps == 5          \* operations started in one behaviour
MaxLayers == 2       \* layers created through useLockLayer
NumUIDs == 2         \* uids used by direct callers of LOCK_STACK
MaxListeners == 2    \* callbacks passed to LOCK_STACK.subscribe
NumNodes == 5        \* elements of the document, document.body included

UIDNames == <<"a", "b", "c", "d">>
LockUIDNames == <<"lock-0", "lock-1", "lock-2", "lock-3">>

UIDs == {UIDNames[i] : i \in 1..NumUIDs}
HookUIDs == {LockUIDNames[i] : i \in 1..MaxLayers}
Listeners == 1..MaxListeners
Nodes == 1..NumNodes

VARIABLES
  locks,      \* LockStack.locks: sequence of Lock records, top is the last
  lockCount,  \* module counter behind newLockUID
  hooks,      \* lifecycle of each useLockLayer layer, by uid
  nextId,     \* identity of the next Lock object / setEnabled closure
  pc,         \* position of the call in progress
  tgl,        \* arguments and return position of the running toggleLayer
  cur,        \* the operation in progress, or the last one when idle
  prev,       \* the operation before cur
  log,        \* every callback invocation and stack mutation, in order
  ops,        \* number of operations started
  listeners,  \* LockStack.listeners: sequence of subscribed callbacks
  heard,      \* every listener invocation, in order
  unsubscribed, \* per listener, the operation that ran its unsubscribe (0: none)
  parent,     \* the document: parent of each element, in document order
  kind,       \* the document: what each element is
  activeElement, \* document.activeElement
  wf,         \* the wrapFocus call under study: arguments and progress
  fx,         \* the focus() calls made by the last step, in order
  layer,      \* the useFocusLock instance of each layer, by uid
  evt,        \* the focus step last made in the current commit, if any
  enabledRef  \* enabledRef.current of each useLockLayer layer, by uid

subVars == <<listeners, heard, unsubscribed>>

domVars == <<parent, kind, activeElement, wf, fx, layer, evt>>

vars == <<locks, lockCount, hooks, nextId, pc, tgl, cur, prev, log, ops,
          subVars, domVars, enabledRef>>

\* ------------------------------------------------------------ Lock type
\* `undefined`: what current() and find() give on a miss.
NoLock == [uid |-> "", id |-> 0, enabled |-> FALSE]

NoOp == [op |-> "none", uid |-> "", id |-> 0, pre |-> <<>>, start |-> 0]

Event(ev, id, val) == [ev |-> ev, id |-> id, val |-> val]

\* Variant: the bottom of the stack taken for its top (this.locks[0])
currentFirst(ls) == IF Len(ls) = 0 THEN NoLock ELSE ls[1]

\* LockStack.current
current(ls) == IF Len(ls) = 0 THEN NoLock ELSE ls[Len(ls)]

\* LockStack.isActive: this.current()?.enabled ?? false
isActive(ls) == current(ls).enabled

\* Array.prototype.find with (lock) => lock.uid === uid
find(ls, uid) ==
  IF \E i \in 1..Len(ls) : ls[i].uid = uid
  THEN ls[CHOOSE i \in 1..Len(ls) :
             /\ ls[i].uid = uid
             /\ \A j \in 1..(i - 1) : ls[j].uid # uid]
  ELSE NoLock

\* Variant: the filter predicate inverted (=== for !==)
RECURSIVE filterInverted(_, _)
filterInverted(ls, uid) ==
  IF ls = <<>> THEN <<>>
  ELSE IF Head(ls).uid = uid
       THEN <<Head(ls)>> \o filterInverted(Tail(ls), uid)
       ELSE filterInverted(Tail(ls), uid)

\* Array.prototype.filter with (lock) => lock.uid !== uid
RECURSIVE filter(_, _)
filter(ls, uid) ==
  IF ls = <<>> THEN <<>>
  ELSE IF Head(ls).uid # uid
       THEN <<Head(ls)>> \o filter(Tail(ls), uid)
       ELSE filter(Tail(ls), uid)

\* lock.enabled = enabled, on the Lock object with this identity
setField(ls, id, val) ==
  [i \in 1..Len(ls) |->
     IF ls[i].id = id THEN [ls[i] EXCEPT !.enabled = val] ELSE ls[i]]

\* `lock-${lockCount++}`
newLockUID(n) == LockUIDNames[n + 1]

\* The uid of the Lock object with this identity
uidOf(ls, id) == ls[CHOOSE i \in 1..Len(ls) : ls[i].id = id].uid

\* Variant: a callback that does not store the value it is given
setEnabledDropped(ref, uid, enabled) == ref

\* lock.setEnabled(enabled): a layer made by useLockLayer stores the value
\* in its enabledRef, (enabled) => (enabledRef.current = enabled)
setEnabled(ref, uid, enabled) ==
  IF uid \in HookUIDs THEN [ref EXCEPT ![uid] = enabled] ELSE ref

\* A layer no component has rendered yet
NoLayer ==
  [step |-> "none", container |-> 0, document |-> FALSE, target |-> 0,
   attached |-> FALSE, autofocus |-> 0, disable |-> FALSE,
   overridden |-> FALSE]

\* No focus step since the last commit began
NoEvent ==
  [op |-> "none", uid |-> "", before |-> 0, runs |-> <<>>,
   overflow |-> FALSE, target |-> 0, returnRef |-> 0,
   disableReturn |-> FALSE, autofocus |-> 0]

\* ------------------------------------------------------------ document
\* Elements are numbered in document order; element 1 is document.body.
Body == 1

\* What an element can be: a plain element, an element carrying
\* tabindex="-1", a button, a disabled button
Kinds == {"div", "dialog", "button", "disabledButton"}

\* HTMLElement.tabIndex
tabIndex(k) == IF k \in {"button", "disabledButton"} THEN 0 ELSE 0 - 1

\* HTMLButtonElement.disabled (undefined, falsy, on the other elements)
disabled(k) == k = "disabledButton"

\* Whether HTMLElement.focus() moves focus to an element of this kind
canFocus(k) == k \in {"dialog", "button"}

\* The ancestors of n in the tree p, n excluded
RECURSIVE ancestors(_, _)
ancestors(p, n) ==
  IF p[n] = 0 THEN {} ELSE {p[n]} \cup ancestors(p, p[n])

\* Node.contains: a is b or an ancestor of b
contains(p, a, b) == a = b \/ a \in ancestors(p, b)

\* The trees whose numbering is their document (pre-)order
Trees ==
  {p \in [Nodes -> 0..NumNodes] :
     /\ p[Body] = 0
     /\ \A n \in Nodes \ {Body} : p[n] \in 1..(n - 1)
     /\ \A n \in Nodes \ {Body, 2} :
          p[n] = n - 1 \/ p[n] \in ancestors(p, n - 1)}

DOCUMENT_POSITION_PRECEDING == 2
DOCUMENT_POSITION_FOLLOWING == 4
DOCUMENT_POSITION_CONTAINS == 8
DOCUMENT_POSITION_CONTAINED_BY == 16

\* node.compareDocumentPosition(other): where other lies, seen from node
compareDocumentPosition(p, node, other) ==
  IF node = other THEN 0
  ELSE IF contains(p, other, node)
  THEN DOCUMENT_POSITION_CONTAINS + DOCUMENT_POSITION_PRECEDING
  ELSE IF contains(p, node, other)
  THEN DOCUMENT_POSITION_CONTAINED_BY + DOCUMENT_POSITION_FOLLOWING
  ELSE IF other < node THEN DOCUMENT_POSITION_PRECEDING
  ELSE DOCUMENT_POSITION_FOLLOWING

\* position & bit
hasBit(position, bit) == (position \div bit) % 2 = 1

\* createFocusWalker's acceptNode: FILTER_ACCEPT (TRUE) or FILTER_SKIP
acceptNode(k) == tabIndex(k) >= 0 /\ ~disabled(k)

childrenOf(p, n) == {c \in Nodes : p[c] = n}

\* firstChild / lastChild of a node, 0 for null; first tells the direction
edgeChild(p, n, first) ==
  IF childrenOf(p, n) = {} THEN 0
  ELSE IF first
  THEN CHOOSE c \in childrenOf(p, n) : \A d \in childrenOf(p, n) : c <= d
  ELSE CHOOSE c \in childrenOf(p, n) : \A d \in childrenOf(p, n) : c >= d

\* nextSibling / previousSibling of a node, 0 for null
sibling(p, n, first) ==
  LET sibs == IF first
              THEN {c \in childrenOf(p, p[n]) : c > n}
              ELSE {c \in childrenOf(p, p[n]) : c < n}
  IN IF sibs = {} THEN 0
     ELSE IF first THEN CHOOSE c \in sibs : \A d \in sibs : c <= d
     ELSE CHOOSE c \in sibs : \A d \in sibs : c >= d

\* TreeWalker.firstChild() / lastChild() from the walker's root: the DOM
\* "traverse children" steps, a skipped node being entered, an accepted
\* node being returned; 0 for null
RECURSIVE traverse(_, _, _, _, _)
traverse(p, ks, root, node, first) ==
  IF node = 0 THEN 0
  ELSE IF acceptNode(ks[node]) THEN node
  ELSE IF edgeChild(p, node, first) # 0
  THEN traverse(p, ks, root, edgeChild(p, node, first), first)
  ELSE LET RECURSIVE climb(_)
           climb(n) ==
             IF n = root THEN 0
             ELSE IF sibling(p, n, first) # 0
             THEN traverse(p, ks, root, sibling(p, n, first), first)
             ELSE IF p[n] = 0 \/ p[n] = root THEN 0
             ELSE climb(p[n])
       IN climb(node)

walkerChild(p, ks, root, first) ==
  traverse(p, ks, root, edgeChild(p, root, first), first)

\* Variant: the two position bits taken for one another
wrapFocusSwapped(p, ks, root, target, forceFirst) ==
  LET position == compareDocumentPosition(p, target, root)
      wrappedTarget ==
        IF hasBit(position, DOCUMENT_POSITION_FOLLOWING) \/ forceFirst
        THEN walkerChild(p, ks, root, TRUE)
        ELSE IF hasBit(position, DOCUMENT_POSITION_PRECEDING)
        THEN walkerChild(p, ks, root, FALSE)
        ELSE 0
  IN IF wrappedTarget # 0 THEN wrappedTarget ELSE root

\* Variant: no fallback to the boundary (wrappedTarget?.focus(), as in the
\* revision of lines 16-28); 0 stands for no focus() call
wrapFocusNoFallback(p, ks, root, target, forceFirst) ==
  LET position == compareDocumentPosition(p, target, root)
  IN IF hasBit(position, DOCUMENT_POSITION_PRECEDING) \/ forceFirst
     THEN walkerChild(p, ks, root, TRUE)
     ELSE IF hasBit(position, DOCUMENT_POSITION_FOLLOWING)
     THEN walkerChild(p, ks, root, FALSE)
     ELSE 0

\* wrapFocus lines 50-60: the element wrapFocus calls focus() on
wrapFocus(p, ks, root, target, forceFirst) ==
  LET position == compareDocumentPosition(p, target, root)
      wrappedTarget ==
        IF hasBit(position, DOCUMENT_POSITION_PRECEDING) \/ forceFirst
        THEN walkerChild(p, ks, root, TRUE)
        ELSE IF hasBit(position, DOCUMENT_POSITION_FOLLOWING)
        THEN walkerChild(p, ks, root, FALSE)
        ELSE 0
  IN IF wrappedTarget # 0 THEN wrappedTarget ELSE root

\* HTMLElement.focus(): document.activeElement after el.focus()
focus(ks, active, el) ==
  IF el # 0 /\ canFocus(ks[el]) THEN el ELSE active

NoCall == [root |-> 0, target |-> 0, forceFirst |-> FALSE, done |-> TRUE]

\* ------------------------------------------------------------------ Init
InitStack ==
  /\ locks = <<>>
  /\ lockCount = 0
  /\ hooks = [u \in HookUIDs |-> "none"]
  /\ nextId = 1
  /\ pc = "idle"
  /\ tgl = [id |-> 0, val |-> FALSE, ret |-> "idle"]
  /\ cur = NoOp
  /\ prev = NoOp
  /\ log = <<>>
  /\ ops = 0
  /\ listeners = <<>>
  /\ heard = <<>>
  /\ unsubscribed = [l \in Listeners |-> 0]
  /\ enabledRef = [u \in HookUIDs |-> FALSE]

\* A document of plain elements under document.body, focus on the body
InitDocument ==
  /\ parent = [n \in Nodes |-> IF n = Body THEN 0 ELSE Body]
  /\ kind = [n \in Nodes |-> "div"]
  /\ activeElement = Body
  /\ wf = NoCall
  /\ fx = <<>>
  /\ layer = [u \in HookUIDs |-> NoLayer]
  /\ evt = NoEvent

Init ==
  /\ InitStack
  /\ InitDocument

\* --------------------------------------------------------- toggleLayer
\* Entering toggleLayer(lock, enabled); ret is where the caller resumes.
callToggleLayer(lock, enabled, ret) ==
  /\ tgl' = [id |-> lock.id, val |-> enabled, ret |-> ret]
  /\ pc' = "toggleLayer"

\* Variant: toggleLayer returns early when lock.enabled already has the value
toggleLayerCallSkipSame ==
  /\ pc = "toggleLayer"
  /\ IF \/ tgl.id = NoLock.id
        \/ \E i \in 1..Len(locks) :
             locks[i].id = tgl.id /\ locks[i].enabled = tgl.val
     THEN /\ pc' = tgl.ret
          /\ log' = log
          /\ enabledRef' = enabledRef
     ELSE /\ pc' = "toggleLayerSet"
          /\ log' = Append(log, Event("call", tgl.id, tgl.val))
          /\ enabledRef' =
               setEnabled(enabledRef, uidOf(locks, tgl.id), tgl.val)
  /\ UNCHANGED <<locks, lockCount, hooks, nextId, tgl, cur, prev, ops>>
  /\ UNCHANGED subVars
  /\ UNCHANGED domVars

\* toggleLayer lines 102 and 104: return on null, else run lock.setEnabled
toggleLayerCall ==
  /\ pc = "toggleLayer"
  /\ IF tgl.id = NoLock.id
     THEN /\ pc' = tgl.ret
          /\ log' = log
          /\ enabledRef' = enabledRef
     ELSE /\ pc' = "toggleLayerSet"
          /\ log' = Append(log, Event("call", tgl.id, tgl.val))
          /\ enabledRef' =
               setEnabled(enabledRef, uidOf(locks, tgl.id), tgl.val)
  /\ UNCHANGED <<locks, lockCount, hooks, nextId, tgl, cur, prev, ops>>
  /\ UNCHANGED subVars
  /\ UNCHANGED domVars

\* toggleLayer line 105: lock.enabled = enabled
toggleLayerSet ==
  /\ pc = "toggleLayerSet"
  /\ locks' = setField(locks, tgl.id, tgl.val)
  /\ pc' = tgl.ret
  /\ UNCHANGED <<lockCount, hooks, nextId, tgl, cur, prev, log, ops>>
  /\ UNCHANGED subVars
  /\ UNCHANGED domVars
  /\ UNCHANGED enabledRef

\* ------------------------------------------------------------------ add
\* Variant: add without the toggleLayer(this.current(), false) of line 62
addBeginNoDisable(uid) ==
  /\ pc = "idle"
  /\ ops < MaxOps
  /\ ops' = ops + 1
  /\ prev' = cur
  /\ cur' = [op |-> "add", uid |-> uid, id |-> nextId, pre |-> locks,
             start |-> Len(log)]
  /\ nextId' = nextId + 1
  /\ callToggleLayer(NoLock, FALSE, "addPush")
  /\ UNCHANGED <<locks, lockCount, log>>
  /\ UNCHANGED subVars
  /\ UNCHANGED domVars
  /\ UNCHANGED enabledRef

\* add lines 61-62: build newLock, toggleLayer(this.current(), false)
addBegin(uid) ==
  /\ pc = "idle"
  /\ ops < MaxOps
  /\ ops' = ops + 1
  /\ prev' = cur
  /\ cur' = [op |-> "add", uid |-> uid, id |-> nextId, pre |-> locks,
             start |-> Len(log)]
  /\ nextId' = nextId + 1
  /\ callToggleLayer(current(locks), FALSE, "addPush")
  /\ UNCHANGED <<locks, lockCount, log>>
  /\ UNCHANGED subVars
  /\ UNCHANGED domVars
  /\ UNCHANGED enabledRef

\* Variant: add without the toggleLayer(newLock, true) of line 64
addPushNoEnable ==
  /\ pc = "addPush"
  /\ LET newLock == [uid |-> cur.uid, id |-> cur.id, enabled |-> FALSE]
     IN /\ locks' = Append(locks, newLock)
        /\ log' = Append(log, Event("push", newLock.id, FALSE))
        /\ callToggleLayer(NoLock, TRUE, "emit")
  /\ UNCHANGED <<lockCount, hooks, nextId, cur, prev, ops>>
  /\ UNCHANGED subVars
  /\ UNCHANGED domVars
  /\ UNCHANGED enabledRef

\* Variant: the new lock put at the bottom (unshift for push)
addPushUnshift ==
  /\ pc = "addPush"
  /\ LET newLock == [uid |-> cur.uid, id |-> cur.id, enabled |-> FALSE]
     IN /\ locks' = <<newLock>> \o locks
        /\ log' = Append(log, Event("push", newLock.id, FALSE))
        /\ callToggleLayer(newLock, TRUE, "emit")
  /\ UNCHANGED <<lockCount, hooks, nextId, cur, prev, ops>>
  /\ UNCHANGED subVars
  /\ UNCHANGED domVars
  /\ UNCHANGED enabledRef

\* add lines 63-64: this.locks.push(newLock); toggleLayer(newLock, true)
addPush ==
  /\ pc = "addPush"
  /\ LET newLock == [uid |-> cur.uid, id |-> cur.id, enabled |-> FALSE]
     IN /\ locks' = Append(locks, newLock)
        /\ log' = Append(log, Event("push", newLock.id, FALSE))
        /\ callToggleLayer(newLock, TRUE, "emit")
  /\ UNCHANGED <<lockCount, hooks, nextId, cur, prev, ops>>
  /\ UNCHANGED subVars
  /\ UNCHANGED domVars
  /\ UNCHANGED enabledRef

\* LOCK_STACK.add called by application code
add(uid) ==
  /\ addBegin(uid)
  /\ UNCHANGED hooks

\* --------------------------------------------------------------- remove
\* Variant: remove without the toggleLayer(lock, false) of line 75
removeBeginNoDisable(uid) ==
  /\ pc = "idle"
  /\ ops < MaxOps
  /\ ops' = ops + 1
  /\ prev' = cur
  /\ cur' = [op |-> "remove", uid |-> uid, id |-> find(locks, uid).id,
             pre |-> locks, start |-> Len(log)]
  /\ callToggleLayer(NoLock, FALSE, "removeFilter")
  /\ UNCHANGED <<locks, lockCount, nextId, log>>
  /\ UNCHANGED subVars
  /\ UNCHANGED domVars
  /\ UNCHANGED enabledRef

\* remove lines 74-75: find the lock, toggleLayer(lock, false)
removeBegin(uid) ==
  /\ pc = "idle"
  /\ ops < MaxOps
  /\ ops' = ops + 1
  /\ prev' = cur
  /\ cur' = [op |-> "remove", uid |-> uid, id |-> find(locks, uid).id,
             pre |-> locks, start |-> Len(log)]
  /\ callToggleLayer(find(locks, uid), FALSE, "removeFilter")
  /\ UNCHANGED <<locks, lockCount, nextId, log>>
  /\ UNCHANGED subVars
  /\ UNCHANGED domVars
  /\ UNCHANGED enabledRef

\* Variant: remove re-enables the bottom record (this.locks[0])
removeFilterFirst ==
  /\ pc = "removeFilter"
  /\ LET wasCurrent == current(locks).uid = cur.uid
         rest == filter(locks, cur.uid)
     IN /\ locks' = rest
        /\ log' = Append(log, Event("filter", 0, wasCurrent))
        /\ IF wasCurrent
           THEN callToggleLayer(IF rest = <<>> THEN NoLock ELSE rest[1],
                                TRUE, "emit")
           ELSE pc' = "emit" /\ tgl' = tgl
  /\ UNCHANGED <<lockCount, hooks, nextId, cur, prev, ops>>
  /\ UNCHANGED subVars
  /\ UNCHANGED domVars
  /\ UNCHANGED enabledRef

\* Variant: remove never re-enables (wasCurrent computed after the filter)
removeFilterNoReenable ==
  /\ pc = "removeFilter"
  /\ LET rest == filter(locks, cur.uid)
         wasCurrent == current(rest).uid = cur.uid
     IN /\ locks' = rest
        /\ log' = Append(log, Event("filter", 0, wasCurrent))
        /\ IF wasCurrent
           THEN callToggleLayer(current(rest), TRUE, "emit")
           ELSE pc' = "emit" /\ tgl' = tgl
  /\ UNCHANGED <<lockCount, hooks, nextId, cur, prev, ops>>
  /\ UNCHANGED subVars
  /\ UNCHANGED domVars
  /\ UNCHANGED enabledRef

\* Variant: remove re-enables the current record whatever was removed
removeFilterAlways ==
  /\ pc = "removeFilter"
  /\ LET wasCurrent == current(locks).uid = cur.uid
         rest == filter(locks, cur.uid)
     IN /\ locks' = rest
        /\ log' = Append(log, Event("filter", 0, wasCurrent))
        /\ callToggleLayer(current(rest), TRUE, "emit")
  /\ UNCHANGED <<lockCount, hooks, nextId, cur, prev, ops>>
  /\ UNCHANGED subVars
  /\ UNCHANGED domVars
  /\ UNCHANGED enabledRef

\* Variant: remove drops the top record (pop) instead of filtering by uid
removeFilterPop ==
  /\ pc = "removeFilter"
  /\ LET wasCurrent == current(locks).uid = cur.uid
         rest == SubSeq(locks, 1, Len(locks) - 1)
     IN /\ locks' = rest
        /\ log' = Append(log, Event("filter", 0, wasCurrent))
        /\ IF wasCurrent
           THEN callToggleLayer(current(rest), TRUE, "emit")
           ELSE pc' = "emit" /\ tgl' = tgl
  /\ UNCHANGED <<lockCount, hooks, nextId, cur, prev, ops>>
  /\ UNCHANGED subVars
  /\ UNCHANGED domVars
  /\ UNCHANGED enabledRef

\* remove lines 77-80: wasCurrent, filter, re-enable the new current
removeFilter ==
  /\ pc = "removeFilter"
  /\ LET wasCurrent == current(locks).uid = cur.uid
         rest == filter(locks, cur.uid)
     IN /\ locks' = rest
        /\ log' = Append(log, Event("filter", 0, wasCurrent))
        /\ IF wasCurrent
           THEN callToggleLayer(current(rest), TRUE, "emit")
           ELSE pc' = "emit" /\ tgl' = tgl
  /\ UNCHANGED <<lockCount, hooks, nextId, cur, prev, ops>>
  /\ UNCHANGED subVars
  /\ UNCHANGED domVars
  /\ UNCHANGED enabledRef

\* LOCK_STACK.remove called by application code
remove(uid) ==
  /\ removeBegin(uid)
  /\ UNCHANGED hooks

\* ----------------------------------------------------------------- emit
\* Variant: the listeners handed the value isActive() had before the call
notifyStale(ls) ==
  [k \in 1..Len(ls) |->
     [listener |-> ls[k], active |-> isActive(cur.pre), stack |-> locks,
      op |-> ops]]

\* emit: active = this.isActive(); every listener gets (active, locks)
\* What emit hands to the listeners, one call per entry of this.listeners
notify(ls) ==
  [k \in 1..Len(ls) |->
     [listener |-> ls[k], active |-> isActive(locks), stack |-> locks,
      op |-> ops]]

\* Variant: emit skipped when isActive() is what it was before the call
emitOnChange ==
  /\ pc = "emit"
  /\ log' = Append(log, Event("emit", 0, isActive(locks)))
  /\ heard' = IF isActive(locks) = isActive(cur.pre)
              THEN heard ELSE heard \o notify(listeners)
  /\ pc' = "idle"
  /\ UNCHANGED <<locks, lockCount, hooks, nextId, tgl, cur, prev, ops>>
  /\ UNCHANGED <<listeners, unsubscribed>>
  /\ UNCHANGED domVars
  /\ UNCHANGED enabledRef

\* emit lines 125-126
emit ==
  /\ pc = "emit"
  /\ log' = Append(log, Event("emit", 0, isActive(locks)))
  /\ heard' = heard \o notify(listeners)
  /\ pc' = "idle"
  /\ UNCHANGED <<locks, lockCount, hooks, nextId, tgl, cur, prev, ops>>
  /\ UNCHANGED <<listeners, unsubscribed>>
  /\ UNCHANGED domVars
  /\ UNCHANGED enabledRef

\* ------------------------------------------------------------ subscribe
\* subscribe line 116: this.listeners.push(callback)
subscribe(l) ==
  /\ pc = "idle"
  /\ ops < MaxOps
  /\ \A k \in 1..Len(listeners) : listeners[k] # l
  /\ unsubscribed[l] = 0
  /\ ops' = ops + 1
  /\ prev' = cur
  /\ cur' = [op |-> "subscribe", uid |-> "", id |-> 0, pre |-> locks,
             start |-> Len(log)]
  /\ listeners' = Append(listeners, l)
  /\ UNCHANGED <<locks, lockCount, hooks, nextId, pc, tgl, log, heard,
                 unsubscribed>>
  /\ UNCHANGED domVars
  /\ UNCHANGED enabledRef

\* The function subscribe returned (line 117): it evaluates
\* this.listeners.filter(...) and drops the result
unsubscribe(l) ==
  /\ pc = "idle"
  /\ ops < MaxOps
  /\ \E k \in 1..Len(listeners) : listeners[k] = l
  /\ unsubscribed[l] = 0
  /\ ops' = ops + 1
  /\ prev' = cur
  /\ cur' = [op |-> "unsubscribe", uid |-> "", id |-> 0, pre |-> locks,
             start |-> Len(log)]
  /\ unsubscribed' = [unsubscribed EXCEPT ![l] = ops + 1]
  /\ listeners' = listeners
  /\ UNCHANGED <<locks, lockCount, hooks, nextId, pc, tgl, log, heard>>
  /\ UNCHANGED domVars
  /\ UNCHANGED enabledRef

\* ----------------------------------------------------------- FocusGuard
\* The state `active` of the FocusGuard whose setActive is listener l:
\* useState(false), then the value of the last notification it received
guardActive(l) ==
  LET mine == SelectSeq(heard, LAMBDA n : n.listener = l)
  IN IF mine = <<>> THEN FALSE ELSE mine[Len(mine)].active

\* The tabIndex the guard renders, 0 - 1 standing for undefined (the div is
\* not in the tab order)
guardTabIndex(l) == IF guardActive(l) THEN 0 ELSE 0 - 1

\* --------------------------------------------------------- useLockLayer
\* Variant: useLockLayer without the render-time disable of line 65
useLockLayerRenderNoDisable ==
  /\ pc = "idle"
  /\ ops < MaxOps
  /\ lockCount < MaxLayers
  /\ ops' = ops + 1
  /\ lockCount' = lockCount + 1
  /\ hooks' = [hooks EXCEPT ![newLockUID(lockCount)] = "rendered"]
  /\ prev' = cur
  /\ cur' = [op |-> "render", uid |-> newLockUID(lockCount), id |-> 0,
             pre |-> locks, start |-> Len(log)]
  /\ UNCHANGED <<locks, nextId, log, pc, tgl>>
  /\ UNCHANGED subVars
  /\ UNCHANGED domVars
  /\ UNCHANGED enabledRef

\* First render of a component using useLockLayer: the useState
\* initialisers take a uid and run toggleLayer(LOCK_STACK.current(), false)
useLockLayerRender ==
  /\ pc = "idle"
  /\ ops < MaxOps
  /\ lockCount < MaxLayers
  /\ ops' = ops + 1
  /\ lockCount' = lockCount + 1
  /\ hooks' = [hooks EXCEPT ![newLockUID(lockCount)] = "rendered"]
  /\ prev' = cur
  /\ cur' = [op |-> "render", uid |-> newLockUID(lockCount), id |-> 0,
             pre |-> locks, start |-> Len(log)]
  /\ callToggleLayer(current(locks), FALSE, "idle")
  /\ UNCHANGED <<locks, nextId, log>>
  /\ UNCHANGED subVars
  /\ UNCHANGED domVars
  /\ UNCHANGED enabledRef

\* The layout effect of useLockLayer: LOCK_STACK.add(uid, callback)
useLockLayerEffect(uid) ==
  /\ hooks[uid] = "rendered"
  /\ hooks' = [hooks EXCEPT ![uid] = "mounted"]
  /\ addBegin(uid)

\* The cleanup of that layout effect: LOCK_STACK.remove(uid)
useLockLayerCleanup(uid) ==
  /\ hooks[uid] = "mounted"
  /\ hooks' = [hooks EXCEPT ![uid] = "unmounted"]
  /\ removeBegin(uid)

\* ----------------------------------------------------------------- Next
Next ==
  \/ \E uid \in UIDs : add(uid)
  \/ \E uid \in UIDs : remove(uid)
  \/ useLockLayerRender
  \/ \E uid \in HookUIDs : useLockLayerEffect(uid)
  \/ \E uid \in HookUIDs : useLockLayerCleanup(uid)
  \/ toggleLayerCall
  \/ toggleLayerSet
  \/ addPush
  \/ removeFilter
  \/ emit

Spec == Init /\ [][Next]_vars

\* The lock stack with subscribers
NextSub ==
  \/ \E uid \in UIDs : add(uid)
  \/ \E uid \in UIDs : remove(uid)
  \/ useLockLayerRender
  \/ \E uid \in HookUIDs : useLockLayerEffect(uid)
  \/ \E uid \in HookUIDs : useLockLayerCleanup(uid)
  \/ \E l \in Listeners : subscribe(l)
  \/ \E l \in Listeners : unsubscribe(l)
  \/ toggleLayerCall
  \/ toggleLayerSet
  \/ addPush
  \/ removeFilter
  \/ emit

SpecSub == Init /\ [][NextSub]_vars

\* The lock stack driven by callers that remove what they add.  An add or
\* a subscribe starts only while enough operations remain to remove every
\* record afterwards, and remove is called with registered uids.  A call,
\* once begun, runs to its end (the code is synchronous): weak fairness of
\* the steps inside a call; every registered uid is removed in the end:
\* weak fairness of remove.
callStep ==
  \/ toggleLayerCall
  \/ toggleLayerSet
  \/ addPush
  \/ removeFilter
  \/ emit

removeRegistered ==
  \E uid \in UIDs : find(locks, uid) # NoLock /\ remove(uid)

NextLive ==
  \/ \E uid \in UIDs : ops + Len(locks) + 2 <= MaxOps /\ add(uid)
  \/ \E l \in Listeners : ops + Len(locks) + 1 <= MaxOps /\ subscribe(l)
  \/ removeRegistered
  \/ callStep

SpecLive ==
  /\ Init
  /\ [][NextLive]_vars
  /\ WF_vars(callStep)
  /\ WF_vars(removeRegistered)

\* ---------------------------------------------------- re-entrant calls
\* A setEnabled callback that calls LOCK_STACK.add or LOCK_STACK.remove
\* itself: the nested call runs to its end before the callback returns, so
\* it is one function of the stack.  The callbacks the nested call runs do
\* not call the stack again.

\* The uid a callback registers a layer of its own with
NestedUID == "x"

\* toggleLayer(lock, enabled) on the stack ls, lines 102-105
toggled(ls, lock, enabled) ==
  IF lock = NoLock THEN ls ELSE setField(ls, lock.id, enabled)

\* add(uid, setEnabled) run to its end on the stack ls, lines 61-64; id is
\* the identity of the new Lock object
addNested(ls, uid, id) ==
  LET newLock == [uid |-> uid, id |-> id, enabled |-> FALSE]
      pushed == Append(toggled(ls, current(ls), FALSE), newLock)
  IN toggled(pushed, newLock, TRUE)

\* remove(uid) run to its end on the stack ls, lines 74-80
removeNested(ls, uid) ==
  LET off == toggled(ls, find(ls, uid), FALSE)
      wasCurrent == current(off).uid = uid
      rest == filter(off, uid)
  IN IF wasCurrent THEN toggled(rest, current(rest), TRUE) ELSE rest

\* The values the callbacks receive during those calls, then the emit
callsOfAdd(ls, id) ==
  (IF ls = <<>> THEN <<>> ELSE <<Event("call", current(ls).id, FALSE)>>)
  \o <<Event("push", id, FALSE), Event("call", id, TRUE),
       Event("emit", 0, TRUE)>>

callsOfRemove(ls, uid) ==
  LET wasCurrent == current(ls).uid = uid
      rest == filter(ls, uid)
  IN (IF find(ls, uid) = NoLock THEN <<>>
      ELSE <<Event("call", find(ls, uid).id, FALSE)>>)
     \o <<Event("filter", 0, wasCurrent)>>
     \o (IF wasCurrent /\ rest # <<>>
         THEN <<Event("call", current(rest).id, TRUE)>> ELSE <<>>)
     \o <<Event("emit", 0, isActive(removeNested(ls, uid)))>>

\* toggleLayer line 104 with a callback that calls LOCK_STACK.add
toggleLayerCallAdds ==
  /\ pc = "toggleLayer"
  /\ tgl.id # NoLock.id
  /\ ops < MaxOps
  /\ NestedUID \notin {locks[i].uid : i \in 1..Len(locks)}
  /\ ops' = ops + 1
  /\ pc' = "toggleLayerSet"
  /\ locks' = addNested(locks, NestedUID, nextId)
  /\ nextId' = nextId + 1
  /\ log' = Append(log, Event("call", tgl.id, tgl.val))
               \o callsOfAdd(locks, nextId)
  /\ UNCHANGED <<lockCount, hooks, tgl, cur, prev>>
  /\ UNCHANGED subVars
  /\ UNCHANGED domVars
  /\ UNCHANGED enabledRef

\* toggleLayer line 104 with a callback that calls LOCK_STACK.remove(uid)
toggleLayerCallRemoves(uid) ==
  /\ pc = "toggleLayer"
  /\ tgl.id # NoLock.id
  /\ ops < MaxOps
  /\ ops' = ops + 1
  /\ pc' = "toggleLayerSet"
  /\ locks' = removeNested(locks, uid)
  /\ log' = Append(log, Event("call", tgl.id, tgl.val))
               \o callsOfRemove(locks, uid)
  /\ UNCHANGED <<lockCount, hooks, nextId, tgl, cur, prev>>
  /\ UNCHANGED subVars
  /\ UNCHANGED domVars
  /\ UNCHANGED enabledRef

\* The lock stack used by callers whose callbacks call it back
NextReentrant ==
  \/ \E uid \in UIDs : add(uid)
  \/ \E uid \in UIDs : remove(uid)
  \/ toggleLayerCall
  \/ toggleLayerCallAdds
  \/ \E uid \in UIDs \cup {NestedUID} : toggleLayerCallRemoves(uid)
  \/ toggleLayerSet
  \/ addPush
  \/ removeFilter
  \/ emit

SpecReentrant == Init /\ [][NextReentrant]_vars

\* ------------------------------------------------------------ wrapFocus
\* Any document, any boundary in it other than document.body, any element
\* outside the boundary that can hold focus holding it (document.body is
\* the active element when nothing is focused), either value of forceFirst
InitWrap ==
  /\ InitStack
  /\ parent \in Trees
  /\ kind \in [Nodes -> Kinds]
  /\ kind[Body] = "div"
  /\ \E root \in Nodes \ {Body} : \E target \in Nodes :
       \E forceFirst \in BOOLEAN :
         /\ ~contains(parent, root, target)
         /\ target = Body \/ canFocus(kind[target])
         /\ wf = [root |-> root, target |-> target,
                  forceFirst |-> forceFirst, done |-> FALSE]
         /\ activeElement = target
  /\ fx = <<>>
  /\ layer = [u \in HookUIDs |-> NoLayer]
  /\ evt = NoEvent

\* wrapFocus(root, target, forceFirst), its newFocus.focus() included
wrapFocusCall ==
  /\ ~wf.done
  /\ LET newFocus ==
           wrapFocus(parent, kind, wf.root, wf.target, wf.forceFirst)
     IN /\ fx' = IF newFocus = 0 THEN fx ELSE Append(fx, newFocus)
        /\ activeElement' = focus(kind, activeElement, newFocus)
  /\ wf' = [wf EXCEPT !.done = TRUE]
  /\ UNCHANGED <<parent, kind, layer, evt>>
  /\ UNCHANGED <<locks, lockCount, hooks, nextId, pc, tgl, cur, prev, log,
                 ops>>
  /\ UNCHANGED subVars
  /\ UNCHANGED enabledRef

NextWrap == wrapFocusCall

SpecWrap == InitWrap /\ [][NextWrap]_vars

\* ------------------------------------------------------------ focus lock
\* The platform, as the handlers meet it.  element.focus() on an element
\* that can take focus and does not hold it: focusout is dispatched at the
\* element losing focus, relatedTarget being the element gaining it, while
\* document.activeElement is document.body; if a listener moved focus
\* meanwhile the change is dropped; otherwise the element becomes
\* document.activeElement and focusin is dispatched at it.  Listeners are
\* capture listeners and run from the document inwards.  The state a
\* dispatch threads through is a record: active is document.activeElement,
\* fx the focus() calls made, runs the handler runs, overflow whether the
\* nesting limit was hit.

MaxNesting == 4      \* focus() calls nested inside one another

\* Position of a layer in mount order
uidIndex(u) == CHOOSE i \in 1..Len(LockUIDNames) : LockUIDNames[i] = u

\* Whether the listeners of layer u are on the capture path of an event at
\* target: attachTo is the document or the container (attachToRef default)
listening(u, target) ==
  /\ layer[u].attached
  /\ layer[u].document \/ contains(parent, layer[u].container, target)

\* The listening layers in the order their listeners run
listenersAt(target) ==
  LET key(u) ==
        IF layer[u].document THEN uidIndex(u)
        ELSE 10 * (Cardinality(ancestors(parent, layer[u].container)) + 1)
             + uidIndex(u)
      all == [i \in 1..MaxLayers |-> LockUIDNames[i]]
  IN SortSeq(SelectSeq(all, LAMBDA u : listening(u, target)),
             LAMBDA a, b : key(a) < key(b))

\* What one run of a handler did: dest is the element the handler takes
\* focus to be going to, calls are the focus() calls it made, in order,
\* stopped tells whether it called stopImmediatePropagation
Run(u, type, dest, prevented, calls, stopped) ==
  [uid |-> u, type |-> type, enabled |-> enabledRef[u],
   root |-> layer[u].container, dest |-> dest, prevented |-> prevented,
   calls |-> calls, stopped |-> stopped]

\* Variant: handleFocusIn without the enabledRef test of line 111
handleFocusInAlways(u, target) ==
  LET root == layer[u].container
  IN IF root = 0 \/ contains(parent, root, target)
     THEN Run(u, "focusin", target, FALSE, <<>>, FALSE)
     ELSE Run(u, "focusin", target, TRUE,
              <<wrapFocus(parent, kind, root, target, FALSE)>>, TRUE)

\* Variant: handleFocusIn letting focus rest on the boundary only
handleFocusInRootOnly(u, target) ==
  LET root == layer[u].container
  IN IF ~enabledRef[u] \/ root = 0 \/ root = target
     THEN Run(u, "focusin", target, FALSE, <<>>, FALSE)
     ELSE Run(u, "focusin", target, TRUE,
              <<wrapFocus(parent, kind, root, target, FALSE)>>, TRUE)

\* Variant: handleFocusIn suppressing the event when the container is null
handleFocusInNullSuppresses(u, target) ==
  LET root == layer[u].container
  IN IF ~enabledRef[u] \/ (root # 0 /\ contains(parent, root, target))
     THEN Run(u, "focusin", target, FALSE, <<>>, FALSE)
     ELSE IF root = 0
     THEN Run(u, "focusin", target, TRUE, <<>>, TRUE)
     ELSE Run(u, "focusin", target, TRUE,
              <<wrapFocus(parent, kind, root, target, FALSE)>>, TRUE)

\* handleFocusIn, lines 110-122
handleFocusIn(u, target) ==
  LET root == layer[u].container
  IN IF ~enabledRef[u] \/ root = 0 \/ contains(parent, root, target)
     THEN Run(u, "focusin", target, FALSE, <<>>, FALSE)
     ELSE Run(u, "focusin", target, TRUE,
              <<wrapFocus(parent, kind, root, target, FALSE)>>, TRUE)

\* Variant: handleFocusOut giving up when relatedTarget is null
handleFocusOutRelatedOnly(u, relatedTarget, active) ==
  LET root == layer[u].container
      newFocusElement == IF relatedTarget # 0 THEN relatedTarget ELSE active
  IN IF \/ ~enabledRef[u] \/ root = 0 \/ relatedTarget = 0
        \/ contains(parent, root, newFocusElement)
     THEN Run(u, "focusout", newFocusElement, FALSE, <<>>, FALSE)
     ELSE Run(u, "focusout", newFocusElement, FALSE,
              <<wrapFocus(parent, kind, root, newFocusElement, FALSE)>>,
              FALSE)

\* handleFocusOut, lines 124-140; active is document.activeElement when the
\* handler starts (line 131 reads it before any focus() call)
handleFocusOut(u, relatedTarget, active) ==
  LET root == layer[u].container
      newFocusElement == IF relatedTarget # 0 THEN relatedTarget ELSE active
      toBody == relatedTarget = Body
      own == IF toBody THEN <<root>> ELSE <<>>
  IN IF ~enabledRef[u] \/ root = 0
     THEN Run(u, "focusout", newFocusElement, FALSE, <<>>, FALSE)
     ELSE IF contains(parent, root, newFocusElement)
     THEN Run(u, "focusout", newFocusElement, toBody, own, FALSE)
     ELSE Run(u, "focusout", newFocusElement, toBody,
              Append(own,
                     wrapFocus(parent, kind, root, newFocusElement, FALSE)),
              FALSE)

\* One listener run for the event ev = [type, target, relatedTarget]
handle(u, ev, active) ==
  IF ev.type = "focusin" THEN handleFocusIn(u, ev.target)
  ELSE handleFocusOut(u, ev.relatedTarget, active)

\* Focus moving from the element that holds it to el (0: to no element), by
\* element.focus() or by the user: focusout at the element losing focus,
\* then, unless a listener moved focus meanwhile, focusin at el.  dispatch
\* sends one event through the listeners on its path, each handler's
\* focus() calls being made as it runs.
RECURSIVE moveFocus(_, _, _)
moveFocus(s, el, fuel) ==
  LET old == s.active
      call(t, e) ==
        IF e = 0 THEN t
        ELSE moveFocus([t EXCEPT !.fx = Append(@, e)], e, fuel - 1)
      RECURSIVE perform(_, _)
      perform(t, calls) ==
        IF calls = <<>> THEN t
        ELSE perform(call(t, Head(calls)), Tail(calls))
      ran(t, run) == [perform(t, run.calls) EXCEPT !.runs = Append(@, run)]
      RECURSIVE dispatch(_, _, _)
      rest(t, hs, ev) ==
        IF t.runs[Len(t.runs)].stopped THEN t ELSE dispatch(t, Tail(hs), ev)
      dispatch(t, hs, ev) ==
        IF hs = <<>> THEN t
        ELSE rest(ran(t, handle(Head(hs), ev, t.active)), hs, ev)
      events ==
        (IF old = Body THEN <<>>
         ELSE <<[type |-> "focusout", target |-> old,
                 relatedTarget |-> el]>>)
        \o (IF el = 0 THEN <<>>
            ELSE <<[type |-> "focusin", target |-> el,
                    relatedTarget |-> IF old = Body THEN 0 ELSE old]>>)
      RECURSIVE deliver(_, _)
      deliver(t, evs) ==
        IF evs = <<>> THEN t
        ELSE IF Head(evs).type = "focusin" /\ t.active # Body THEN t
        ELSE deliver(dispatch([t EXCEPT !.active =
                                 IF Head(evs).type = "focusin"
                                 THEN el ELSE Body],
                              listenersAt(Head(evs).target), Head(evs)),
                     Tail(evs))
  IN IF el # 0 /\ (~canFocus(kind[el]) \/ el = old) THEN s
     ELSE IF fuel = 0 THEN [s EXCEPT !.overflow = TRUE]
     ELSE deliver(s, events)

\* el.focus(), el possibly null (0)
focusElement(s, el, fuel) ==
  IF el = 0 THEN s
  ELSE moveFocus([s EXCEPT !.fx = Append(@, el)], el, fuel)

\* The state a step starts from
Now == [active |-> activeElement, fx |-> <<>>, runs |-> <<>>,
        overflow |-> FALSE]

\* The state a step leaves
settle(s, op, uid) ==
  /\ activeElement' = s.active
  /\ fx' = s.fx
  /\ evt' = [NoEvent EXCEPT !.op = op, !.uid = uid, !.runs = s.runs,
                            !.overflow = s.overflow]

\* The state the focus return of layer uid leaves
returned(s, uid, target, returnRef, disableReturn) ==
  /\ activeElement' = s.active
  /\ fx' = s.fx
  /\ evt' = [op |-> "return", uid |-> uid, before |-> activeElement,
             runs |-> s.runs, overflow |-> s.overflow, target |-> target,
             returnRef |-> returnRef, disableReturn |-> disableReturn,
             autofocus |-> 0]

stackVars == <<locks, lockCount, hooks, nextId, pc, tgl, cur, prev, log, ops>>

\* No commit in progress: every layer is unrendered, locked or gone
Settled ==
  /\ pc = "idle"
  /\ \A u \in HookUIDs :
       \/ hooks[u] = "none" /\ layer[u].step = "none"
       \/ hooks[u] = "mounted" /\ layer[u].step = "locked"
       \/ hooks[u] = "unmounted" /\ layer[u].step = "gone"

\* The elements a containerRef can be put on: those with content that no
\* other layer has its containerRef on
Containers ==
  {n \in Nodes \ {Body} :
     /\ kind[n] \in {"div", "dialog"}
     /\ \A u \in HookUIDs : layer[u].container # n}

\* The elements of a container that can be rendered with autoFocus
AutoFocusable(container) ==
  {n \in Nodes : /\ n # container
                 /\ contains(parent, container, n)
                 /\ kind[n] = "button"}

\* First render of useFocusLock, after its useLockLayer: the options are
\* bound (line 86) and useFocusReturn keeps document.activeElement (line
\* 36); autofocus is the element of the container rendered with autoFocus
\* (0: none), whose mount is still to be committed
useFocusLockRender(uid, container, document, autofocus) ==
  /\ pc = "idle"
  /\ hooks[uid] = "rendered"
  /\ layer[uid].step = "none"
  /\ layer' = [layer EXCEPT ![uid] =
                 [NoLayer EXCEPT !.step = IF autofocus = 0 THEN "rendered"
                                          ELSE "rendering",
                                 !.container = container,
                                 !.document = document,
                                 !.target = activeElement,
                                 !.autofocus = autofocus]]
  /\ fx' = <<>>
  /\ evt' = NoEvent
  /\ UNCHANGED <<parent, kind, activeElement, wf>>
  /\ UNCHANGED stackVars
  /\ UNCHANGED subVars
  /\ UNCHANGED enabledRef

\* The commit of a layer's elements, before any effect runs: the element
\* rendered with autoFocus carries the autofocus attribute, and the
\* platform may give it focus (React calls focus() on it; a browser leaves
\* an element inserted after load alone)
commitMount(uid, focused) ==
  /\ pc = "idle"
  /\ hooks[uid] = "rendered"
  /\ layer[uid].step = "rendering"
  /\ LET el == layer[uid].autofocus
         s == IF focused THEN focusElement(Now, el, MaxNesting) ELSE Now
     IN /\ activeElement' = s.active
        /\ fx' = s.fx
        /\ evt' = [NoEvent EXCEPT !.op = "autofocus", !.uid = uid,
                                  !.runs = s.runs, !.overflow = s.overflow,
                                  !.autofocus = IF focused THEN el ELSE 0]
  /\ layer' = [layer EXCEPT ![uid].step = "rendered"]
  /\ UNCHANGED <<parent, kind, wf>>
  /\ UNCHANGED stackVars
  /\ UNCHANGED subVars
  /\ UNCHANGED enabledRef

\* Variant: the mount wrapping focus by document position (forceFirst false)
useFocusLockEffectNoForce(uid) ==
  /\ pc = "idle"
  /\ hooks[uid] = "mounted"
  /\ layer[uid].step = "rendered"
  /\ LET container == layer[uid].container
         s == IF /\ container # 0
                 /\ ~contains(parent, container, activeElement)
                 /\ layer[uid].autofocus = 0
              THEN focusElement(Now,
                     wrapFocus(parent, kind, container, activeElement, FALSE),
                     MaxNesting)
              ELSE Now
     IN /\ activeElement' = s.active
        /\ fx' = s.fx
        /\ evt' = [NoEvent EXCEPT !.op = "mount", !.uid = uid,
                                  !.runs = s.runs, !.overflow = s.overflow]
        /\ layer' = [layer EXCEPT ![uid].step = "locked",
                                  ![uid].autofocus = 0,
                                  ![uid].attached =
                                    layer[uid].document \/ container # 0]
  /\ UNCHANGED <<parent, kind, wf>>
  /\ UNCHANGED stackVars
  /\ UNCHANGED subVars
  /\ UNCHANGED enabledRef

\* The layout effect of useFocusLock, lines 97-146: focus is moved into the
\* container unless it is there or an element of the container carries
\* autofocus (line 104), then the handlers are attached
useFocusLockEffect(uid) ==
  /\ pc = "idle"
  /\ hooks[uid] = "mounted"
  /\ layer[uid].step = "rendered"
  /\ LET container == layer[uid].container
         s == IF /\ container # 0
                 /\ ~contains(parent, container, activeElement)
                 /\ layer[uid].autofocus = 0
              THEN focusElement(Now,
                     wrapFocus(parent, kind, container, activeElement, TRUE),
                     MaxNesting)
              ELSE Now
     IN /\ activeElement' = s.active
        /\ fx' = s.fx
        /\ evt' = [NoEvent EXCEPT !.op = "mount", !.uid = uid,
                                  !.runs = s.runs, !.overflow = s.overflow]
        /\ layer' = [layer EXCEPT ![uid].step = "locked",
                                  ![uid].autofocus = 0,
                                  ![uid].attached =
                                    layer[uid].document \/ container # 0]
  /\ UNCHANGED <<parent, kind, wf>>
  /\ UNCHANGED stackVars
  /\ UNCHANGED subVars
  /\ UNCHANGED enabledRef

\* Variant: the cleanup leaving the listeners attached
useFocusLockCleanupNoDetach(uid) ==
  /\ pc = "idle"
  /\ hooks[uid] = "unmounted"
  /\ layer[uid].step = "locked"
  /\ layer' = [layer EXCEPT ![uid].step = "detached"]
  /\ fx' = <<>>
  /\ evt' = NoEvent
  /\ UNCHANGED <<parent, kind, activeElement, wf>>
  /\ UNCHANGED stackVars
  /\ UNCHANGED subVars
  /\ UNCHANGED enabledRef

\* The cleanup of that layout effect, lines 147-150, after LOCK_STACK.remove
useFocusLockCleanup(uid) ==
  /\ pc = "idle"
  /\ hooks[uid] = "unmounted"
  /\ layer[uid].step = "locked"
  /\ layer' = [layer EXCEPT ![uid].step = "detached",
                            ![uid].attached = FALSE]
  /\ fx' = <<>>
  /\ evt' = NoEvent
  /\ UNCHANGED <<parent, kind, activeElement, wf>>
  /\ UNCHANGED stackVars
  /\ UNCHANGED subVars
  /\ UNCHANGED enabledRef

\* Variant: the captured element preferred to returnRef.current
useFocusReturnCleanupTargetFirst(uid, returnRef, disableReturn) ==
  /\ pc = "idle"
  /\ layer[uid].step = "detached"
  /\ LET target == layer[uid].target
         s == IF disableReturn THEN Now
              ELSE focusElement(Now,
                     IF target # 0 THEN target ELSE returnRef, MaxNesting)
     IN returned(s, uid, target, returnRef, disableReturn)
  /\ layer' = [layer EXCEPT ![uid] =
                 [NoLayer EXCEPT !.step = "gone",
                                 !.container = layer[uid].container]]
  /\ UNCHANGED <<parent, kind, wf>>
  /\ UNCHANGED stackVars
  /\ UNCHANGED subVars
  /\ UNCHANGED enabledRef

\* Variant: the cleanup without the disabledRef test of line 40
useFocusReturnCleanupAlways(uid, returnRef, disableReturn) ==
  /\ pc = "idle"
  /\ layer[uid].step = "detached"
  /\ LET target == layer[uid].target
         s == focusElement(Now, IF returnRef # 0 THEN returnRef ELSE target,
                           MaxNesting)
     IN returned(s, uid, target, returnRef, disableReturn)
  /\ layer' = [layer EXCEPT ![uid] =
                 [NoLayer EXCEPT !.step = "gone",
                                 !.container = layer[uid].container]]
  /\ UNCHANGED <<parent, kind, wf>>
  /\ UNCHANGED stackVars
  /\ UNCHANGED subVars
  /\ UNCHANGED enabledRef

\* The cleanup of useFocusReturn, lines 39-47, the last cleanup of the
\* hook; returnRef and disableReturn are what returnRef.current and
\* disabledRef.current hold when it runs (0 and FALSE for a ref not given)
useFocusReturnCleanup(uid, returnRef, disableReturn) ==
  /\ pc = "idle"
  /\ layer[uid].step = "detached"
  /\ LET target == layer[uid].target
         s == IF disableReturn THEN Now
              ELSE focusElement(Now,
                     IF returnRef # 0 THEN returnRef ELSE target, MaxNesting)
     IN returned(s, uid, target, returnRef, disableReturn)
  /\ layer' = [layer EXCEPT ![uid] =
                 [NoLayer EXCEPT !.step = "gone",
                                 !.container = layer[uid].container]]
  /\ UNCHANGED <<parent, kind, wf>>
  /\ UNCHANGED stackVars
  /\ UNCHANGED subVars
  /\ UNCHANGED enabledRef

\* The component's owner sets disableReturnRef.current = true right after
\* the cleanups of layer uid have run, in the same tick
disableReturnLater(uid) ==
  /\ pc = "idle"
  /\ layer[uid].step = "gone"
  /\ evt.op = "return" /\ evt.uid = uid
  /\ ~evt.disableReturn
  /\ evt' = [evt EXCEPT !.op = "disabledLater", !.disableReturn = TRUE]
  /\ UNCHANGED <<parent, kind, activeElement, wf, fx, layer>>
  /\ UNCHANGED stackVars
  /\ UNCHANGED subVars
  /\ UNCHANGED enabledRef

\* Variant: the disable effect setting enabledRef.current = !disable
disableEffectRestores(uid, disable) ==
  /\ pc = "idle"
  /\ hooks[uid] = "mounted"
  /\ layer[uid].disable # disable
  /\ layer' = [layer EXCEPT ![uid].disable = disable,
                            ![uid].overridden = @ \/ disable]
  /\ enabledRef' = [enabledRef EXCEPT ![uid] = ~disable]
  /\ fx' = <<>>
  /\ evt' = NoEvent
  /\ UNCHANGED <<parent, kind, activeElement, wf>>
  /\ UNCHANGED stackVars
  /\ UNCHANGED subVars

\* A render of a mounted layer with the option disable changed, then the
\* effect of lines 91-94, whose dependency is [disable]: disable is the
\* value the effect last ran with (false for undefined), overridden tells
\* whether it ever ran with true
disableEffect(uid, disable) ==
  /\ pc = "idle"
  /\ hooks[uid] = "mounted"
  /\ layer[uid].disable # disable
  /\ layer' = [layer EXCEPT ![uid].disable = disable,
                            ![uid].overridden = @ \/ disable]
  /\ enabledRef' = IF disable THEN [enabledRef EXCEPT ![uid] = FALSE]
                   ELSE enabledRef
  /\ fx' = <<>>
  /\ evt' = NoEvent
  /\ UNCHANGED <<parent, kind, activeElement, wf>>
  /\ UNCHANGED stackVars
  /\ UNCHANGED subVars

\* The user moves focus to an element (Tab, Shift-Tab, a click on it)
userFocus(el) ==
  /\ Settled
  /\ canFocus(kind[el])
  /\ el # activeElement
  /\ settle(moveFocus(Now, el, MaxNesting), "focus", "")
  /\ UNCHANGED <<parent, kind, wf, layer>>
  /\ UNCHANGED stackVars
  /\ UNCHANGED subVars
  /\ UNCHANGED enabledRef

\* The user takes focus off every element (a click on something that
\* cannot take focus): relatedTarget is null
userBlur ==
  /\ Settled
  /\ activeElement # Body
  /\ settle(moveFocus(Now, 0, MaxNesting), "blur", "")
  /\ UNCHANGED <<parent, kind, wf, layer>>
  /\ UNCHANGED stackVars
  /\ UNCHANGED subVars
  /\ UNCHANGED enabledRef

\* The kinds of a document with tree p and a button first under
\* document.body: an element without children is a button, the elements
\* with children all are of kind k
pageKinds(p, k) ==
  [n \in Nodes |->
     IF n = Body THEN "div"
     ELSE IF childrenOf(p, n) # {} THEN k
     ELSE "button"]

\* What returnRef.current can hold when a layer is torn down: null or an
\* element outside the container that goes away with the layer
ReturnRefs(uid) ==
  {0} \cup {n \in Nodes \ {Body} :
              ~contains(parent, layer[uid].container, n)}

InitFocus ==
  /\ InitStack
  /\ parent \in Trees
  /\ childrenOf(parent, 2) = {}
  /\ \E k \in {"div", "dialog"} : kind = pageKinds(parent, k)
  /\ activeElement = Body
  /\ wf = NoCall
  /\ fx = <<>>
  /\ layer = [u \in HookUIDs |-> NoLayer]
  /\ evt = NoEvent

NextFocus ==
  \/ Settled /\ useLockLayerRender
  \/ \E uid \in HookUIDs : \E container \in Containers :
       \E document \in BOOLEAN :
         useFocusLockRender(uid, container, document, 0)
  \/ \E uid \in HookUIDs :
       layer[uid].step = "rendered" /\ useLockLayerEffect(uid)
  \/ \E uid \in HookUIDs : useFocusLockEffect(uid)
  \/ \E uid \in HookUIDs : Settled /\ useLockLayerCleanup(uid)
  \/ \E uid \in HookUIDs : useFocusLockCleanup(uid)
  \/ \E uid \in HookUIDs : \E returnRef \in ReturnRefs(uid) :
       \E disableReturn \in BOOLEAN :
         useFocusReturnCleanup(uid, returnRef, disableReturn)
  \/ \E uid \in HookUIDs : disableReturnLater(uid)
  \/ \E el \in Nodes : userFocus(el)
  \/ userBlur
  \/ toggleLayerCall
  \/ toggleLayerSet
  \/ addPush
  \/ removeFilter
  \/ emit

SpecFocus == InitFocus /\ [][NextFocus]_vars

\* The kinds of a document with tree p whose elements with children are
\* of kind k and whose elements without are of kind leaf
mountKinds(p, k, leaf) ==
  [n \in Nodes |->
     IF n = Body THEN "div"
     ELSE IF childrenOf(p, n) # {} THEN k
     ELSE leaf]

\* Layers whose owners change the disable option, seen from the lock
\* stack and its subscribers
NextDisable ==
  \/ useLockLayerRender
  \/ \E uid \in HookUIDs : useLockLayerEffect(uid)
  \/ \E uid \in HookUIDs : \E disable \in BOOLEAN :
       disableEffect(uid, disable)
  \/ \E uid \in HookUIDs : useLockLayerCleanup(uid)
  \/ \E l \in Listeners : subscribe(l)
  \/ toggleLayerCall
  \/ toggleLayerSet
  \/ addPush
  \/ removeFilter
  \/ emit

SpecDisable == Init /\ [][NextDisable]_vars

\* The same layers on a document with focus events, their other options
\* left out (no returnRef, no disableReturnRef)
NextDisableFocus ==
  \/ Settled /\ useLockLayerRender
  \/ \E uid \in HookUIDs : \E container \in Containers :
       \E document \in BOOLEAN :
         useFocusLockRender(uid, container, document, 0)
  \/ \E uid \in HookUIDs :
       layer[uid].step = "rendered" /\ useLockLayerEffect(uid)
  \/ \E uid \in HookUIDs : useFocusLockEffect(uid)
  \/ \E uid \in HookUIDs : \E disable \in BOOLEAN :
       Settled /\ layer[uid].step = "locked" /\ disableEffect(uid, disable)
  \/ \E uid \in HookUIDs : Settled /\ useLockLayerCleanup(uid)
  \/ \E uid \in HookUIDs : useFocusLockCleanup(uid)
  \/ \E uid \in HookUIDs : useFocusReturnCleanup(uid, 0, FALSE)
  \/ \E el \in Nodes : userFocus(el)
  \/ toggleLayerCall
  \/ toggleLayerSet
  \/ addPush
  \/ removeFilter
  \/ emit

SpecDisableFocus == InitFocus /\ [][NextDisableFocus]_vars

\* Layers whose containerRef holds no element (0) and whose attachToRef
\* holds the document, mounted one on top of another while the user moves
\* focus
NextNoContainer ==
  \/ Settled /\ useLockLayerRender
  \/ \E uid \in HookUIDs : useFocusLockRender(uid, 0, TRUE, 0)
  \/ \E uid \in HookUIDs :
       layer[uid].step = "rendered" /\ useLockLayerEffect(uid)
  \/ \E uid \in HookUIDs : useFocusLockEffect(uid)
  \/ \E el \in Nodes : userFocus(el)
  \/ userBlur
  \/ toggleLayerCall
  \/ toggleLayerSet
  \/ addPush
  \/ emit

SpecNoContainer == InitFocus /\ [][NextNoContainer]_vars

\* Layers mounting one on top of another, with elements rendered with
\* autoFocus, in any document, focus being on the body or on any button
\* when the first layer renders
InitMount ==
  /\ InitStack
  /\ parent \in Trees
  /\ \E k \in {"div", "dialog"} : \E leaf \in {"button", "disabledButton"} :
       kind = mountKinds(parent, k, leaf)
  /\ activeElement \in {n \in Nodes : n = Body \/ kind[n] = "button"}
  /\ wf = NoCall
  /\ fx = <<>>
  /\ layer = [u \in HookUIDs |-> NoLayer]
  /\ evt = NoEvent

NextMount ==
  \/ Settled /\ useLockLayerRender
  \/ \E uid \in HookUIDs : \E container \in Containers :
       \E document \in BOOLEAN :
         \E autofocus \in {0} \cup AutoFocusable(container) :
           useFocusLockRender(uid, container, document, autofocus)
  \/ \E uid \in HookUIDs : \E focused \in BOOLEAN : commitMount(uid, focused)
  \/ \E uid \in HookUIDs :
       layer[uid].step = "rendered" /\ useLockLayerEffect(uid)
  \/ \E uid \in HookUIDs : useFocusLockEffect(uid)
  \/ toggleLayerCall
  \/ toggleLayerSet
  \/ addPush
  \/ emit

SpecMount == InitMount /\ [][NextMount]_vars

\* ------------------------------------------------- derived observations
\* The events of the operation in progress (or of the last one when idle)
OpLog == SubSeq(log, cur.start + 1, Len(log))

\* The events of the operation before it
PrevLog == SubSeq(log, prev.start + 1, cur.start)

\* The setEnabled invocations among a sequence of events
CallsIn(evs) == SelectSeq(evs, LAMBDA e : e.ev = "call")

\* The invocations of the setEnabled closure of Lock object id
CallsOf(id) == SelectSeq(log, LAMBDA e : e.ev = "call" /\ e.id = id)

\* The value that closure received most recently (FALSE before any call)
LastVal(id) ==
  IF CallsOf(id) = <<>> THEN FALSE ELSE CallsOf(id)[Len(CallsOf(id))].val

UIDsOf(ls) == {ls[i].uid : i \in 1..Len(ls)}
IdsOf(ls) == {ls[i].id : i \in 1..Len(ls)}
Created == 1..(nextId - 1)

\* The records of ls except those carrying uid, as they stand in ls
Without(ls, uid) == SelectSeq(ls, LAMBDA l : l.uid # uid)

\* The number of records of ls carrying uid
Occurrences(ls, uid) == Cardinality({i \in 1..Len(ls) : ls[i].uid = uid})

\* ls with the enabled field of its last record set to val
WithTop(ls, val) ==
  [i \in 1..Len(ls) |->
     IF i = Len(ls) THEN [ls[i] EXCEPT !.enabled = val] ELSE ls[i]]

NoMountPending == \A u \in HookUIDs : hooks[u] # "rendered"

\* A remove(uid) has returned whose uid was registered below the top only
RemovedBelowTop ==
  /\ pc = "idle"
  /\ cur.op = "remove"
  /\ cur.uid \in UIDsOf(cur.pre)
  /\ current(cur.pre).uid # cur.uid

\* A remove(uid) has returned whose uid named the top record and no other
RemovedTop ==
  /\ pc = "idle"
  /\ cur.op = "remove"
  /\ current(cur.pre).uid = cur.uid
  /\ Occurrences(cur.pre, cur.uid) = 1

\* add(A) of an unregistered uid has been followed at once by remove(A)
AddThenRemove ==
  /\ pc = "idle"
  /\ cur.op = "remove"
  /\ prev.op = "add"
  /\ cur.uid = prev.uid
  /\ prev.uid \notin UIDsOf(prev.pre)

\* ---------------------------------------------------------------- claims

\* C1: in every state, during and between add / remove calls, at most one
\* record of the stack has enabled = true.
C1_AtMostOneEnabled ==
  Cardinality({i \in 1..Len(locks) : locks[i].enabled}) <= 1

C1_Witness ==
  /\ pc = "idle"
  /\ Len(locks) >= 3
  /\ \E i \in 1..Len(locks) : locks[i].enabled

\* C2: a record with enabled = true is the last-pushed record still in the
\* stack; no record below the top is ever enabled.
C2_EnabledIsTop ==
  \A i \in 1..Len(locks) : locks[i].enabled => i = Len(locks)

C2_Witness ==
  /\ pc = "idle"
  /\ cur.op = "remove"
  /\ Len(locks) >= 2
  /\ locks[Len(locks)].enabled

C4_AddOrder ==
  cur.op = "add" =>
    LET top == current(cur.pre)
        expected ==
          (IF cur.pre # <<>> THEN <<Event("call", top.id, FALSE)>> ELSE <<>>)
          \o <<Event("push", cur.id, FALSE), Event("call", cur.id, TRUE),
               Event("emit", 0, TRUE)>>
    IN /\ Len(OpLog) <= Len(expected)
       /\ OpLog = SubSeq(expected, 1, Len(OpLog))
       /\ pc = "idle" => OpLog = expected
       /\ Cardinality({i \in 1..Len(locks) : LastVal(locks[i].id)}) <= 1
       /\ (pc = "idle" /\ ops = 2 /\ prev.op = "add") =>
            /\ CallsIn(log) = <<Event("call", 1, TRUE),
                                Event("call", 1, FALSE),
                                Event("call", 2, TRUE)>>
            /\ current(locks).uid = cur.uid

C4_Witness ==
  /\ cur.op = "add"
  /\ pc = "toggleLayerSet"
  /\ tgl.val = TRUE
  /\ cur.pre # <<>>
  /\ current(cur.pre).enabled

C6_RemoveBelowTopFrame ==
  RemovedBelowTop =>
    /\ locks = Without(cur.pre, cur.uid)
    /\ current(locks) = current(cur.pre)
    /\ \A k \in 1..Len(CallsIn(OpLog)) :
         \E i \in 1..Len(cur.pre) :
           /\ cur.pre[i].id = CallsIn(OpLog)[k].id
           /\ cur.pre[i].uid = cur.uid

C6_Witness ==
  /\ RemovedBelowTop
  /\ Len(locks) >= 2
  /\ current(locks).enabled

\* C7 as stated: remove(uid) of a record that is not the top invokes no
\* activate callback at all.
C7_RemoveBelowTopSilent ==
  RemovedBelowTop => CallsIn(OpLog) = <<>>

\* C7 amended: remove(uid) of a record that is not the top invokes exactly
\* one callback, that of the record it looked up, with false.
C7_RemoveBelowTopDisables ==
  RemovedBelowTop =>
    CallsIn(OpLog) = <<Event("call", find(cur.pre, cur.uid).id, FALSE)>>

C7_Witness ==
  /\ RemovedBelowTop
  /\ ~find(cur.pre, cur.uid).enabled
  /\ LastVal(cur.id) = FALSE

\* C8 as stated: the values passed to a record's callback alternate
\* strictly true, false, true, ..., and once the record has been removed
\* they end with false, true and false having been passed equally often.
C8_StrictAlternation ==
  \A id \in Created :
    /\ \A k \in 1..Len(CallsOf(id)) : CallsOf(id)[k].val = (k % 2 = 1)
    /\ (pc = "idle" /\ id \notin IdsOf(locks)) => Len(CallsOf(id)) % 2 = 0

\* C8 amended: the first value passed to a record's callback is true and a
\* true is never directly followed by another true, but false may be passed
\* several times in a row; the record remove(uid) looked up has received
\* false last when remove returns.
C8_NoRepeatedTrue ==
  /\ \A id \in Created :
       /\ CallsOf(id) # <<>> => CallsOf(id)[1].val
       /\ \A k \in 1..(Len(CallsOf(id)) - 1) :
            ~(CallsOf(id)[k].val /\ CallsOf(id)[k + 1].val)
  /\ (pc = "idle" /\ cur.op = "remove" /\ cur.id # NoLock.id) =>
       /\ CallsOf(cur.id) # <<>>
       /\ ~LastVal(cur.id)

C8_Witness ==
  /\ pc = "idle"
  /\ cur.op = "remove"
  /\ cur.uid \in HookUIDs
  /\ Len(CallsOf(cur.id)) >= 4
  /\ \E k \in 1..(Len(CallsOf(cur.id)) - 1) :
       ~CallsOf(cur.id)[k].val /\ ~CallsOf(cur.id)[k + 1].val

\* The calls add(A); remove(A) made on callbacks of records that were
\* registered before the add
OldCalls ==
  SelectSeq(CallsIn(PrevLog \o OpLog), LAMBDA e : e.id # prev.id)

\* C9 as stated: add(A) of an unregistered uid followed at once by
\* remove(A) restores the prior records, order and enabled flags; a record
\* B enabled before gets exactly activate(false) then activate(true), and
\* no other earlier record's callback is called.
C9_RoundTripRestores ==
  AddThenRemove =>
    /\ locks = prev.pre
    /\ \A k \in 1..Len(OldCalls) : OldCalls[k].id = current(prev.pre).id
    /\ isActive(prev.pre) =>
         OldCalls = <<Event("call", current(prev.pre).id, FALSE),
                      Event("call", current(prev.pre).id, TRUE)>>

\* C9 amended: the prior records and order are restored, with the prior
\* enabled flags except that the top record ends up enabled even if it was
\* disabled before the add; the rest as stated.
C9_RoundTripEnablesTop ==
  AddThenRemove =>
    /\ locks = WithTop(prev.pre, TRUE)
    /\ \A k \in 1..Len(OldCalls) : OldCalls[k].id = current(prev.pre).id
    /\ isActive(prev.pre) =>
         OldCalls = <<Event("call", current(prev.pre).id, FALSE),
                      Event("call", current(prev.pre).id, TRUE)>>

C9_Witness ==
  /\ AddThenRemove
  /\ Len(prev.pre) >= 2
  /\ isActive(prev.pre)

\* C10: add(uid, cb) calls cb(true) exactly once before it returns and
\* calls cb with nothing else; when it returns current() is the new record
\* and isActive() is true.
C10_AddActivates ==
  (pc = "idle" /\ cur.op = "add") =>
    /\ CallsOf(cur.id) = <<Event("call", cur.id, TRUE)>>
    /\ SelectSeq(OpLog, LAMBDA e : e.id = cur.id /\ e.ev = "call")
         = <<Event("call", cur.id, TRUE)>>
    /\ current(locks).uid = cur.uid
    /\ current(locks).id = cur.id
    /\ isActive(locks)

C10_Witness ==
  /\ pc = "idle"
  /\ cur.op = "add"
  /\ Len(locks) >= 2
  /\ isActive(locks)

\* C11: while a record X is registered, every record beneath X is disabled
\* and the last value its callback received is false, in every state and
\* whatever add / remove calls are made; a record beneath X is re-enabled
\* only once nothing is above it.
C11_BeneathStaysDisabled ==
  \A i \in 1..(Len(locks) - 1) :
    /\ ~locks[i].enabled
    /\ ~LastVal(locks[i].id)

C11_Witness ==
  /\ pc = "idle"
  /\ cur.op = "remove"
  /\ cur.uid \in UIDsOf(cur.pre)
  /\ Len(locks) >= 2
  /\ Len(CallsOf(locks[1].id)) >= 2

\* C12: remove(uid) of a uid that is not registered leaves the records,
\* their order and their enabled flags as they were and invokes no
\* activate callback.
C12_RemoveAbsent ==
  (pc = "idle" /\ cur.op = "remove" /\ cur.uid \notin UIDsOf(cur.pre)) =>
    /\ locks = cur.pre
    /\ CallsIn(OpLog) = <<>>

C12_Witness ==
  /\ pc = "idle"
  /\ cur.op = "remove"
  /\ cur.uid \notin UIDsOf(cur.pre)
  /\ Len(cur.pre) >= 2
  /\ isActive(locks)

\* The listener invocations made by the operation in progress (or the last)
OpHeard == SelectSeq(heard, LAMBDA n : n.op = ops)

\* How many of them went to listener l
OpHeardBy(l) == Len(SelectSeq(OpHeard, LAMBDA n : n.listener = l))

Subscribed(l) == \E k \in 1..Len(listeners) : listeners[k] = l

\* An add or a remove has returned
StackCallReturned == pc = "idle" /\ cur.op \in {"add", "remove"}

C14_SilentAfterUnsubscribe ==
  \A k \in 1..Len(heard) :
    \/ unsubscribed[heard[k].listener] = 0
    \/ heard[k].op < unsubscribed[heard[k].listener]

\* ------------------------------------------------------ wrapFocus claims
\* The descendants of the boundary the walker accepts
Focusables(root) ==
  {d \in Nodes : d # root /\ contains(parent, root, d) /\ acceptNode(kind[d])}

\* Those of them that do not lie inside another one
OuterFocusables(root) ==
  {d \in Focusables(root) :
     \A a \in Focusables(root) : a = d \/ ~contains(parent, a, d)}

FirstOf(S) == CHOOSE n \in S : \A m \in S : n <= m
LastOf(S) == CHOOSE n \in S : \A m \in S : n >= m

\* wrapFocus(boundary, target, false) has returned, the boundary having
\* focusable descendants
Wrapped == wf.done /\ wf.root # 0 /\ ~wf.forceFirst /\ Focusables(wf.root) # {}

\* C15 as stated: a target before the boundary puts focus on the first
\* focusable descendant, a target after the boundary on the last.
C15_BeforeGivesFirst ==
  Wrapped =>
    /\ wf.target < wf.root => activeElement = FirstOf(Focusables(wf.root))
    /\ wf.target > wf.root => activeElement = LastOf(Focusables(wf.root))

\* C15 amended: a target after the boundary puts focus on the first
\* focusable descendant; a target before the boundary (an ancestor of the
\* boundary included) puts it on the last focusable descendant that is not
\* inside another focusable descendant.
C15_AfterGivesFirst ==
  Wrapped =>
    /\ wf.target > wf.root =>
         /\ fx = <<FirstOf(Focusables(wf.root))>>
         /\ activeElement = FirstOf(Focusables(wf.root))
    /\ wf.target < wf.root =>
         /\ fx = <<LastOf(OuterFocusables(wf.root))>>
         /\ activeElement = LastOf(OuterFocusables(wf.root))

C15_Witness ==
  /\ Wrapped
  /\ wf.target > wf.root
  /\ Cardinality(Focusables(wf.root)) >= 2
  /\ activeElement = FirstOf(Focusables(wf.root))

\* wrapFocus has returned, the boundary having no focusable descendant
WrappedEmpty == wf.done /\ wf.root # 0 /\ Focusables(wf.root) = {}

\* C16 as stated: with no focusable descendant wrap focuses the boundary,
\* whatever the target and forceFirst, and focus does not stay on the
\* target.
C16_FocusOnBoundary ==
  WrappedEmpty => fx = <<wf.root>> /\ activeElement = wf.root

\* C16 amended: with no focusable descendant wrap calls focus() on the
\* boundary and on nothing else, whatever the target and forceFirst; focus
\* is then on the boundary if the boundary can receive focus and is left
\* on the target if it cannot.
C16_FocusCallOnBoundary ==
  WrappedEmpty =>
    /\ fx = <<wf.root>>
    /\ canFocus(kind[wf.root]) => activeElement = wf.root
    /\ ~canFocus(kind[wf.root]) => activeElement = wf.target

C16_Witness ==
  /\ WrappedEmpty
  /\ canFocus(kind[wf.root])
  /\ childrenOf(parent, wf.root) # {}
  /\ wf.target > wf.root
  /\ activeElement = wf.root

\* ----------------------------------------------------- focus lock claims
\* The handler runs of the last focus step
Runs == {evt.runs[i] : i \in 1..Len(evt.runs)}

\* A handler of an armed layer met focus going out of its boundary
Escaping(r) ==
  /\ r.enabled
  /\ r.root # 0
  /\ ~contains(parent, r.root, r.dest)

\* C17: when a handler of an armed layer whose boundary can take focus has
\* met a focusin on an element outside the boundary, or a focusout towards
\* one, then once the event is handled the focused element is the boundary
\* or a descendant of it.
C17_FocusStaysInside ==
  \A r \in Runs :
    Escaping(r) /\ canFocus(kind[r.root]) =>
      contains(parent, r.root, activeElement)

C17_Witness ==
  /\ evt.op = "focus"
  /\ \E r \in Runs :
       /\ Escaping(r) /\ canFocus(kind[r.root])
       /\ r.type = "focusout"
       /\ r.dest # Body
       /\ r.calls # <<>>
       /\ contains(parent, r.root, activeElement)

\* C18: a handler of a layer whose enabled flag is false makes no focus()
\* call and does not suppress the event.
C18_StandbyIsInert ==
  \A r \in Runs : ~r.enabled => r.calls = <<>> /\ ~r.prevented

C18_Witness ==
  /\ evt.op = "focus"
  /\ \E r \in Runs :
       /\ ~r.enabled
       /\ layer[r.uid].step = "locked"
       /\ r.root # 0
       /\ ~contains(parent, r.root, r.dest)
       /\ r.calls = <<>>
  /\ \E r \in Runs : r.enabled

\* The focus() calls the handlers of the last step made
RECURSIVE CallsMade(_)
CallsMade(rs) ==
  IF rs = <<>> THEN 0 ELSE Len(Head(rs).calls) + CallsMade(Tail(rs))

\* The element the torn-down layer's focus return picks
Chosen == IF evt.returnRef # 0 THEN evt.returnRef ELSE evt.target

\* C19: a teardown without the disabled-return flag calls focus() once, on
\* returnRef.current if that is an element and else on the element that
\* was focused when the layer was created; if that element cannot take
\* focus, focus stays where it was, and if it can and no handler redirects,
\* it holds focus.
C19_ReturnTarget ==
  evt.op = "return" /\ ~evt.disableReturn =>
    /\ fx # <<>> /\ fx[1] = Chosen
    /\ Len(fx) = 1 + CallsMade(evt.runs)
    /\ ~canFocus(kind[Chosen]) =>
         fx = <<Chosen>> /\ activeElement = evt.before
    /\ canFocus(kind[Chosen]) /\ CallsMade(evt.runs) = 0 =>
         activeElement = Chosen

C19_Witness ==
  /\ evt.op = "return" /\ ~evt.disableReturn
  /\ evt.returnRef # 0
  /\ evt.returnRef # evt.target
  /\ canFocus(kind[evt.target])
  /\ evt.before # evt.returnRef
  /\ activeElement = evt.returnRef

\* C20: a teardown with the disabled-return flag set calls focus() on
\* nothing and leaves focus where it was, whatever returnRef holds.
C20_NoReturnWhenDisabled ==
  evt.op = "return" /\ evt.disableReturn =>
    fx = <<>> /\ evt.runs = <<>> /\ activeElement = evt.before

C20_Witness ==
  /\ evt.op = "return" /\ evt.disableReturn
  /\ evt.returnRef # 0
  /\ canFocus(kind[evt.returnRef])
  /\ evt.before # evt.returnRef
  /\ activeElement = evt.before

\* C21: the step that runs the cleanup of useFocusReturn makes no focus()
\* call: the focus-return assignment is left to a later tick, it is never
\* made inside the teardown.
C21_ReturnDeferred ==
  [][\A u \in HookUIDs :
       layer[u].step = "detached" /\ layer'[u].step = "gone" => fx' = <<>>]_vars

\* The teardown of layer u has run LOCK_STACK.remove to its end: the lock
\* is gone, the top of the stack is enabled, the listeners were notified
Removed(u) ==
  /\ pc = "idle"
  /\ cur.op = "remove" /\ cur.uid = u
  /\ u \notin UIDsOf(locks)
  /\ locks # <<>> => current(locks).enabled
  /\ log # <<>> /\ log[Len(log)].ev = "emit"

\* C22: when the handlers of a torn-down layer have been detached,
\* LOCK_STACK.remove has already run to its end; when the focus return
\* runs, the handlers are detached, and no handler of the torn-down layer
\* runs for the events the return raises.
C22_TeardownOrder ==
  \A u \in HookUIDs :
    /\ layer[u].step = "detached" => Removed(u) /\ ~layer[u].attached
    /\ evt.op = "return" /\ evt.uid = u =>
         /\ layer[u].step = "gone"
         /\ u \notin UIDsOf(locks) /\ ~layer[u].attached
         /\ \A r \in Runs : r.uid # u

C22_Witness ==
  /\ evt.op = "return"
  /\ layer[evt.uid].step = "gone"
  /\ locks # <<>>
  /\ fx # <<>>
  /\ activeElement # evt.before
  /\ \E r \in Runs : r.enabled

\* C23: outside a running call, every FocusGuard whose subscription is set
\* up has tabIndex 0 exactly when LOCK_STACK.isActive() is true.
C23_GuardFollowsIsActive ==
  pc = "idle" =>
    \A l \in Listeners :
      Subscribed(l) /\ unsubscribed[l] = 0 =>
        (guardTabIndex(l) = 0 <=> isActive(locks))

\* What a listener is handed is settled: of a non-empty stack exactly the
\* top record is enabled, the boolean is isActive() of that stack and tells
\* whether the stack holds a lock
SettledNotification(n) ==
  /\ \A i \in 1..Len(n.stack) : n.stack[i].enabled <=> i = Len(n.stack)
  /\ n.active = isActive(n.stack)
  /\ n.active <=> n.stack # <<>>

Deleted == SelectSeq(cur.pre, LAMBDA l : l.uid = cur.uid)

\* C25: when remove returns, the last value passed to the callback of
\* every record it deleted is false.
C25_DeletedWereDisabled ==
  StackCallReturned /\ cur.op = "remove" =>
    \A i \in 1..Len(Deleted) : ~LastVal(Deleted[i].id)

\* C26: the focus() the platform gives an element rendered with autoFocus,
\* before the layer's add has run, is redirected by no other layer and
\* leaves focus on that element; when the mount completes focus is still
\* there and the new layer is the only armed one.
C26_AutoFocusSurvivesMount ==
  /\ [](evt.op = "autofocus" /\ evt.autofocus # 0 =>
          /\ activeElement = evt.autofocus
          /\ \A r \in Runs : r.calls = <<>> /\ ~r.prevented)
  /\ [][\A u \in HookUIDs :
          /\ layer[u].step = "rendered" /\ layer'[u].step = "locked"
          /\ evt.op = "autofocus" /\ evt.autofocus # 0
          => /\ activeElement' = evt.autofocus
             /\ \A v \in HookUIDs : enabledRef'[v] <=> v = u]_vars

\* The new layer's add has run after the platform focused its autoFocus
\* element, which lies outside the layer below, whose handler ran
C26_Witness ==
  /\ evt.op = "autofocus" /\ evt.autofocus # 0
  /\ pc = "idle" /\ hooks[evt.uid] = "mounted"
  /\ Len(locks) = 2
  /\ enabledRef[evt.uid]
  /\ \E r \in Runs :
       /\ r.uid # evt.uid
       /\ r.type = "focusin"
       /\ ~contains(parent, r.root, evt.autofocus)

\* The element the mount of a layer on container c moves focus to
MountTarget(c) == IF Focusables(c) # {} THEN FirstOf(Focusables(c)) ELSE c

\* The mount effect of layer u runs in this step
Mounts(u) == layer[u].step = "rendered" /\ layer'[u].step = "locked"

\* C27 as stated: a mount with focus outside the boundary and no autofocus
\* descendant leaves focus on the first focusable descendant, or on the
\* boundary when there is none; any other mount does not move focus.
C27_MountMovesFocus ==
  [][\A u \in HookUIDs : Mounts(u) =>
       IF /\ ~contains(parent, layer[u].container, activeElement)
          /\ layer[u].autofocus = 0
       THEN activeElement' = MountTarget(layer[u].container)
       ELSE activeElement' = activeElement /\ fx' = <<>>]_vars

\* C27 amended: the mount calls focus() on that element and on nothing
\* else; focus is then on it unless it is a boundary that cannot take
\* focus, in which case focus stays where it was.
C27_MountCallsFocus ==
  [][\A u \in HookUIDs : Mounts(u) =>
       IF /\ ~contains(parent, layer[u].container, activeElement)
          /\ layer[u].autofocus = 0
       THEN /\ fx' = <<MountTarget(layer[u].container)>>
            /\ activeElement' =
                 IF canFocus(kind[MountTarget(layer[u].container)])
                 THEN MountTarget(layer[u].container)
                 ELSE activeElement
       ELSE activeElement' = activeElement /\ fx' = <<>>]_vars

\* A layer has mounted while focus was on an element after its container,
\* which has several focusable descendants: focus is on the first
C27_Witness ==
  /\ evt.op = "mount"
  /\ Cardinality(Focusables(layer[evt.uid].container)) > 1
  /\ layer[evt.uid].target > LastOf(Focusables(layer[evt.uid].container))
  /\ fx = <<FirstOf(Focusables(layer[evt.uid].container))>>
  /\ activeElement = FirstOf(Focusables(layer[evt.uid].container))

\* C28: when focus leaves the element that holds it for no element, the
\* armed layer's focusout handler prevents the default and focus is on the
\* boundary once it has returned.
C28_BlurFocusesBoundary ==
  evt.op = "blur" =>
    \A r \in Runs :
      r.type = "focusout" /\ r.enabled =>
        r.prevented /\ activeElement = r.root

\* The records of the stack that are enabled
EnabledIn(ls) == {i \in 1..Len(ls) : ls[i].enabled}

\* C29: when a call of add or remove has returned, callbacks that called
\* add or remove themselves included, at most one record is enabled and it
\* is the top of the stack.
C29_ReentrantSafe ==
  StackCallReturned => EnabledIn(locks) \subseteq {Len(locks)}

\* C30: when the disabled-return flag is set to true after the teardown of
\* a layer and before the next tick, the focus return of that layer has
\* moved focus nowhere.
C30_LateFlagCancelsReturn ==
  evt.op = "disabledLater" => fx = <<>> /\ activeElement = evt.before

\* C31: a handler of a layer whose disable option is true makes no focus()
\* call, whatever other layers have mounted and unmounted.
C31_DisabledNeverRedirects ==
  \A r \in Runs : layer[r.uid].disable => r.calls = <<>>

\* The record of layer u on the stack (NoLock when it has none)
RecordOf(u) == find(locks, u)

\* C34 as stated: outside a running call, enabledRef.current of every layer
\* that has a record equals the enabled field of that record.
C34_RefEqualsField ==
  pc = "idle" =>
    \A u \in HookUIDs :
      RecordOf(u) # NoLock => enabledRef[u] = RecordOf(u).enabled

\* C34 amended: a layer whose flag is true has an enabled record, and flag
\* and field are equal for every layer whose disable option has never been
\* true; isActive() true tells that the top layer's handlers are live only
\* for such a layer.
C34_RefImpliesField ==
  pc = "idle" =>
    \A u \in HookUIDs :
      RecordOf(u) # NoLock =>
        /\ enabledRef[u] => RecordOf(u).enabled
        /\ ~layer[u].overridden => enabledRef[u] = RecordOf(u).enabled

\* Two layers are registered: the top one was switched off through its
\* option, so isActive() is true while its flag is false; the lower one
\* never was, and its flag equals its record's field
C34_Witness ==
  /\ pc = "idle"
  /\ Len(locks) = 2
  /\ layer[locks[2].uid].overridden
  /\ isActive(locks) /\ ~enabledRef[locks[2].uid]
  /\ ~layer[locks[1].uid].overridden
  /\ enabledRef[locks[1].uid] = locks[1].enabled

\* The disable effect of layer u runs in this step
DisableChanges(u) == layer'[u].disable # layer[u].disable

\* C38: a change of the disable option sets the layer's flag to false when
\* the option becomes true and leaves it as it is when the option becomes
\* false; it touches no other flag, no record, no call in progress and no
\* listener; and a flag goes from false to true only in a callback that
\* LOCK_STACK calls with true.
C38_DisableOnlySwitchesOff ==
  [][\A u \in HookUIDs :
       /\ DisableChanges(u) =>
            /\ enabledRef'[u] = (enabledRef[u] /\ ~layer'[u].disable)
            /\ \A v \in HookUIDs \ {u} : enabledRef'[v] = enabledRef[v]
            /\ locks' = locks /\ log' = log /\ heard' = heard
            /\ pc' = pc /\ ops' = ops
       /\ ~enabledRef[u] /\ enabledRef'[u] =>
            /\ pc = "toggleLayer" /\ tgl.val
            /\ uidOf(locks, tgl.id) = u]_vars

\* The option of the armed top layer went to true and back to false: the
\* flag is still false, the record is enabled and a listener is subscribed
C38_Witness ==
  /\ pc = "idle"
  /\ locks # <<>>
  /\ current(locks).uid \in HookUIDs
  /\ layer[current(locks).uid].overridden
  /\ ~layer[current(locks).uid].disable
  /\ ~enabledRef[current(locks).uid]
  /\ current(locks).enabled
  /\ listeners # <<>>

\* wrapFocus has returned having taken walker.firstChild()
PickedFirst ==
  /\ wf.done /\ wf.root # 0 /\ Focusables(wf.root) # {}
  /\ wf.forceFirst \/ wf.target > wf.root

\* wrapFocus has returned having taken walker.lastChild()
PickedLast ==
  /\ wf.done /\ wf.root # 0 /\ Focusables(wf.root) # {}
  /\ ~wf.forceFirst /\ wf.target < wf.root

\* C32: the element wrap picks as first is the earliest focusable
\* descendant of the boundary in document order, the element it picks as
\* last is the latest, focusable elements nested in focusable elements
\* included.
C32_PicksEarliestLatest ==
  /\ PickedFirst => fx = <<FirstOf(Focusables(wf.root))>>
  /\ PickedLast => fx = <<LastOf(Focusables(wf.root))>>

\* C33: a handler that finds containerRef.current null makes no focus()
\* call and neither prevents the default nor stops the event, whether its
\* layer is armed or not; handling a focus event changes no lock state.
C33_NullContainerIsNoOp ==
  /\ [](\A r \in Runs :
          r.root = 0 => r.calls = <<>> /\ ~r.prevented /\ ~r.stopped)
  /\ [][evt'.op \in {"focus", "blur"} /\ evt' # evt =>
          locks' = locks /\ enabledRef' = enabledRef /\ log' = log]_vars

\* The user moved focus while an armed layer without container and a
\* disarmed one were listening: focus is where the user sent it
C33_Witness ==
  /\ evt.op = "focus"
  /\ \E r \in Runs : r.root = 0 /\ r.enabled /\ activeElement = r.dest
  /\ \E r \in Runs : ~r.enabled

\* The layer that is armed: the one whose record is the enabled top
Armed == current(locks).uid

\* The top layer was torn down and its focus return has run while another
\* layer is registered, armed and listening
ReturnedToLower ==
  /\ evt.op = "return"
  /\ pc = "idle"
  /\ locks # <<>>
  /\ Len(cur.pre) = Len(locks) + 1
  /\ current(cur.pre).uid = evt.uid
  /\ enabledRef[Armed]
  /\ layer[Armed].attached
  /\ ~evt.disableReturn
  /\ fx # <<>>

\* C35: after the top layer's teardown and focus return, the focused
\* element is inside the boundary of the layer that is now armed.
C35_ReturnStaysInLower ==
  ReturnedToLower =>
    contains(parent, layer[Armed].container, activeElement)

\* The layers whose enabledRef is true
ArmedLayers == {u \in HookUIDs : enabledRef[u]}

\* The handler runs of the last focus step that called focus()
Redirects == {i \in 1..Len(evt.runs) : evt.runs[i].calls # <<>>}

\* C37: with exactly one layer armed, the handling of one focus event by
\* the user ends: the nesting limit is not reached, every focus() call a
\* handler makes is on the boundary or an element inside it, at most one
\* handler run redirects (the events its calls raise cause no other), and
\* that run makes at most two calls (root.focus() and wrapFocus's).
C37_RedirectTerminates ==
  evt.op \in {"focus", "blur"} /\ Cardinality(ArmedLayers) = 1 =>
    /\ ~evt.overflow
    /\ \A r \in Runs : \A i \in 1..Len(r.calls) :
         contains(parent, r.root, r.calls[i])
    /\ Cardinality(Redirects) <= 1
    /\ Len(fx) <= 2

C37_Witness ==
  /\ evt.op = "focus"
  /\ Cardinality(ArmedLayers) = 1
  /\ Cardinality(Redirects) = 1
  /\ Len(evt.runs) > 1
  /\ \E r \in Runs : Escaping(r) /\ r.calls # <<>> /\ activeElement = r.calls[1]

\* The Lock objects ever pushed, by identity
Pushed == {log[i].id : i \in {j \in 1..Len(log) : log[j].ev = "push"}}

\* The value of the last setEnabled call on the Lock object id (false when
\* it was never called)
LastCall(id) ==
  LET mine == SelectSeq(log, LAMBDA e : e.ev = "call" /\ e.id = id)
  IN IF mine = <<>> THEN FALSE ELSE mine[Len(mine)].val

\* Nothing is registered and nothing believes otherwise
Drained ==
  /\ pc = "idle"
  /\ locks = <<>>
  /\ ~isActive(locks)
  /\ \A id \in Pushed : ~LastCall(id)
  /\ \A k \in 1..Len(listeners) : ~guardActive(listeners[k])

\* C36: when every add(uid) is followed by a remove(uid) and the adds
\* stop, the system ends in a state where the stack is empty, isActive()
\* is false, every callback was last called with false and every
\* subscribed listener was last notified with false.
C36_EventuallyDrained == <>[]Drained

====
